---- MODULE Spec2Model ----
(***************************************************************************)
(* Model of scripts/dependency-resolver.py: the version constraint matcher *)
(* (VersionConstraint), the registry loader, the dependency graph builder, *)
(* the cycle detector, the dependency validator and main().                *)
(*                                                                         *)
(* A Python str is a sequence of one-character strings, so that parsing    *)
(* (re.match, re.sub, str.split, int) is computed on characters.           *)
(***************************************************************************)
EXTENDS Integers, Sequences, FiniteSets, TLC

VARIABLES
    \* VersionConstraint under test (SpecSat)
    vc,            \* the object: [state, constraint, operator, version]
    candidate,     \* the argument of the last satisfies() call
    sat,           \* its outcome: "idle", "True", "False" or "ValueError"
    refTuple,      \* the tuple the constraint's version was written from, or <<>>
    candTuple,     \* the tuple the candidate was written from, or <<>>
    \* DependencyResolver
    pc,                \* where the run is
    plugin_keys,       \* the keys of self.plugins, in insertion order
    plugins,           \* self.plugins: name -> manifest
    dependency_graph,  \* self.dependency_graph: name -> set of names
    reverse_graph,     \* self.reverse_graph: name -> set of names
    raised,            \* the exception that left the run uncaught, or "None"
    \* detect_circular_dependencies
    cycles,            \* cycles
    visited,           \* visited
    rec_stack,         \* rec_stack
    path,              \* path
    frames,            \* the active dfs calls: [node, todo], todo the neighbours
                       \* the call's for loop has not reached yet
    root_idx,          \* position of the outer for loop in plugin_keys
    \* validate_dependencies, resolve_all_dependencies
    manifest_arg,      \* the manifest handed to validate_dependencies
    result,            \* the last call: [op, exc, ok, errors]
    \* main
    argc,              \* len(sys.argv), 0 when main is not running
    dir_exists,        \* whether plugins_dir exists
    files,             \* the *.potion files of plugins_dir, in glob order
    file_idx,          \* position of load_plugins in files
    warnings,          \* the files load_plugins has warned about
    manifest_file,     \* the file sys.argv[2] names, or NoFile
    exit_code,         \* -1 while running, then the process's exit status
    output             \* what the process printed: [stream, head, errors, plugins, deps]

satVars == <<vc, candidate, sat, refTuple, candTuple>>

resolverVars == <<pc, plugin_keys, plugins, dependency_graph, reverse_graph, raised>>

detectVars == <<cycles, visited, rec_stack, path, frames, root_idx>>

runVars == <<argc, dir_exists, files, file_idx, warnings, manifest_file, exit_code, output>>

vars == <<satVars, resolverVars, detectVars, manifest_arg, result, runVars>>

(***************************************************************************)
(* Bounds                                                                  *)
(***************************************************************************)
\* version components of the generated reference versions are 0..MaxNum
MaxNum == 3

\* dependency declarations in a whole registry (SpecCycle)
MaxDecls == 3

\* dependency declarations of the manifest handed to the validator (SpecValidate)
MaxDeps == 2
\* the plugins directory holds up to MaxFiles manifest files
MaxFiles == 2

(***************************************************************************)
(* Characters and Python's int()                                           *)
(***************************************************************************)
Digits == <<"0", "1", "2", "3", "4", "5", "6", "7", "8", "9">>

IsDigit(ch) == \E i \in 1..10 : Digits[i] = ch

DigitVal(ch) == (CHOOSE i \in 1..10 : Digits[i] = ch) - 1

\* int(s) accepts a non-empty run of decimal digits (of the characters modelled)
IsInt(s) == s # <<>> /\ \A i \in 1..Len(s) : IsDigit(s[i])

RECURSIVE IntOf(_)
IntOf(s) ==
    IF s = <<>> THEN 0
    ELSE IntOf(SubSeq(s, 1, Len(s) - 1)) * 10 + DigitVal(s[Len(s)])

\* re.sub(r'[-+].*$', '', version): cut at the first '-' or '+'
StripSuffix(s) ==
    IF \E i \in 1..Len(s) : s[i] \in {"-", "+"}
    THEN LET k == CHOOSE i \in 1..Len(s) :
                     /\ s[i] \in {"-", "+"}
                     /\ \A j \in 1..(i - 1) : s[j] \notin {"-", "+"}
         IN  SubSeq(s, 1, k - 1)
    ELSE s

\* version.split('.')
RECURSIVE Split(_)
Split(s) ==
    IF \A i \in 1..Len(s) : s[i] # "."
    THEN <<s>>
    ELSE LET k == CHOOSE i \in 1..Len(s) :
                     s[i] = "." /\ \A j \in 1..(i - 1) : s[j] # "."
         IN  <<SubSeq(s, 1, k - 1)>> \o Split(SubSeq(s, k + 1, Len(s)))

(***************************************************************************)
(* VersionConstraint                                                       *)
(***************************************************************************)
\* the alternation of the pattern, in the order re tries it
Operators == << <<">", "=">>, <<"<", "=">>, <<">">>, <<"<">>,
                <<"~", ">">>, <<"=">>, <<"^">> >>

HasPrefix(s, p) == Len(s) >= Len(p) /\ SubSeq(s, 1, Len(p)) = p

\* an alternative matches when it is a prefix and (.+) has a character left
Matches(constraint, i) ==
    HasPrefix(constraint, Operators[i]) /\ Len(constraint) > Len(Operators[i])

\* VersionConstraint._parse: [exc, operator, version]
_parse(constraint) ==
    IF \E i \in 1..Len(Operators) : Matches(constraint, i)
    THEN LET k == CHOOSE i \in 1..Len(Operators) :
                     /\ Matches(constraint, i)
                     /\ \A j \in 1..(i - 1) : ~Matches(constraint, j)
         IN  [exc |-> "None", operator |-> Operators[k],
              version |-> SubSeq(constraint, Len(Operators[k]) + 1, Len(constraint))]
    ELSE [exc |-> "ValueError", operator |-> <<>>, version |-> <<>>]

\* how many of the split parts int() is applied to
ParsedParts(parts) == IF Len(parts) < 3 THEN Len(parts) ELSE 3

\* lines 63-67: the tuple of the split parts, or int()'s ValueError
TupleOfParts(parts) ==
    IF \E i \in 1..ParsedParts(parts) : ~IsInt(parts[i])
    THEN [exc |-> "ValueError", v |-> <<0, 0, 0>>]
    ELSE [exc |-> "None",
          v |-> << IntOf(parts[1]),
                   IF Len(parts) > 1 THEN IntOf(parts[2]) ELSE 0,
                   IF Len(parts) > 2 THEN IntOf(parts[3]) ELSE 0 >>]

\* VersionConstraint._parse_version: [exc, v], v the (major, minor, patch) tuple
_parse_version(version) == TupleOfParts(Split(StripSuffix(version)))

\* Python's tuple order on 3-tuples of int
TupleLess(a, b) ==
    \/ a[1] < b[1]
    \/ a[1] = b[1] /\ a[2] < b[2]
    \/ a[1] = b[1] /\ a[2] = b[2] /\ a[3] < b[3]

\* VersionConstraint._compare_versions
_compare_versions(v1, v2) ==
    IF TupleLess(v1, v2) THEN -1
    ELSE IF TupleLess(v2, v1) THEN 1
    ELSE 0

\* mutant: '~>' bounded by the next patch instead of the next minor
PessimisticUpperPatch(v1) == <<v1[1], v1[2], v1[3] + 1>>

\* upper bound of '~>': (v1_parts[0], v1_parts[1] + 1, 0)
PessimisticUpper(v1) == <<v1[1], v1[2] + 1, 0>>

\* upper bound of '^': (v1_parts[0] + 1, 0, 0)
CaretUpper(v1) == <<v1[1] + 1, 0, 0>>

\* mutant: '=' compares the parsed tuples
ExactMatchParsed(ownVersion, version) ==
    _parse_version(ownVersion).v = _parse_version(version).v

\* the '=' branch: self.version == version
ExactMatch(ownVersion, version) == ownVersion = version

\* the operator branches of satisfies, on the parsed tuples
OperatorHolds(operator, ownVersion, version, v1, v2) ==
    IF operator = <<"=">> THEN ExactMatch(ownVersion, version)
    ELSE IF operator = <<">", "=">> THEN _compare_versions(v2, v1) >= 0
    ELSE IF operator = <<"<", "=">> THEN _compare_versions(v2, v1) <= 0
    ELSE IF operator = <<">">> THEN _compare_versions(v2, v1) > 0
    ELSE IF operator = <<"<">> THEN _compare_versions(v2, v1) < 0
    ELSE IF operator = <<"~", ">">>
         THEN /\ _compare_versions(v2, v1) >= 0
              /\ _compare_versions(v2, PessimisticUpper(v1)) < 0
    ELSE IF operator = <<"^">>
         THEN /\ _compare_versions(v2, v1) >= 0
              /\ _compare_versions(v2, CaretUpper(v1)) < 0
    ELSE FALSE

\* lines 38-56, given what lines 35-36 returned or raised
SatisfiesParsed(operator, ownVersion, version, p1, p2) ==
    IF p1.exc # "None" \/ p2.exc # "None" THEN "ValueError"
    ELSE IF OperatorHolds(operator, ownVersion, version, p1.v, p2.v)
         THEN "True" ELSE "False"

\* VersionConstraint.satisfies: "True", "False", or "ValueError" when either
\* _parse_version raises (both versions are parsed before the operator is looked at)
satisfies(operator, ownVersion, version) ==
    SatisfiesParsed(operator, ownVersion, version,
                    _parse_version(ownVersion), _parse_version(version))

(***************************************************************************)
(* Manifest documents, as yaml.safe_load returns them                      *)
(***************************************************************************)
\* Python's None: also what dict.get returns for a missing or empty entry
None == "None"

\* the plugin names of the model
Names == {"A", "B", "C"}

\* a scalar read from a document: a str, a missing key, or a YAML float
StrV(s) == [t |-> "str", s |-> s]
AbsentV == [t |-> "absent", s |-> <<>>]
FloatV == [t |-> "float", s |-> <<>>]

\* an entry of a dependencies list: a mapping, or a scalar such as "- foo"
Dep(name, version) == [t |-> "map", name |-> name, version |-> version]
ScalarDep == [t |-> "scalar", name |-> None, version |-> AbsentV]

\* the dependencies entry: a list, a missing key, or a key with no value
DepList(items) == [t |-> "list", items |-> items]
AbsentDeps == [t |-> "absent", items |-> <<>>]
NullDeps == [t |-> "null", items |-> <<>>]

Manifest(name, version, deps) ==
    [name |-> name, version |-> version, dependencies |-> deps]

Range(seq) == {seq[i] : i \in 1..Len(seq)}

\* no call of validate_dependencies or resolve_all_dependencies yet
NoResult == [op |-> "none", exc |-> "None", ok |-> FALSE, errors |-> <<>>]

\* the record of a call that returned or raised r
Called(op, r) == [op |-> op, exc |-> r.exc, ok |-> r.ok, errors |-> r.errors]

\* no manifest has been handed to validate_dependencies
NoManifest == Manifest(None, AbsentV, AbsentDeps)

\* a file as open and yaml.safe_load find it: one that cannot be opened, one
\* that is no YAML, a document that is no mapping (a list, a scalar, an empty
\* file), or a mapping
Unreadable == [t |-> "unreadable", doc |-> NoManifest]
Unparseable == [t |-> "unparseable", doc |-> NoManifest]
NonMapping == [t |-> "nonmapping", doc |-> NoManifest]
Mapping(doc) == [t |-> "mapping", doc |-> doc]

\* sys.argv[2] is not given
NoFile == [t |-> "none", doc |-> NoManifest]

\* what the process prints: the stream, the first line, the `  - ` lines, and
\* the two totals of the success report
Printed(stream, head, errors, nplugins, ndeps) ==
    [stream |-> stream, head |-> head, errors |-> errors,
     plugins |-> nplugins, deps |-> ndeps]

NoOutput == Printed("none", "none", <<>>, 0, 0)

(***************************************************************************)
(* States in which a part of the program does not exist yet                *)
(***************************************************************************)
\* main is not running (the specifications of single operations)
NoRun ==
    /\ argc = 0
    /\ dir_exists = TRUE
    /\ files = <<>>
    /\ file_idx = 1
    /\ warnings = <<>>
    /\ manifest_file = NoFile
    /\ exit_code = -1
    /\ output = NoOutput

\* no resolver exists (SpecSat)
NoResolver ==
    /\ pc = "none"
    /\ plugin_keys = <<>>
    /\ plugins = <<>>
    /\ dependency_graph = <<>>
    /\ reverse_graph = <<>>
    /\ raised = "None"
    /\ cycles = <<>>
    /\ visited = {}
    /\ rec_stack = {}
    /\ path = <<>>
    /\ frames = <<>>
    /\ root_idx = 1
    /\ manifest_arg = NoManifest
    /\ result = NoResult
    /\ NoRun

\* no VersionConstraint is under test (the resolver's specifications)
NoMatcher ==
    /\ vc = [state |-> "none", constraint |-> <<>>, operator |-> <<>>, version |-> <<>>]
    /\ candidate = <<>>
    /\ sat = "idle"
    /\ refTuple = <<>>
    /\ candTuple = <<>>

(***************************************************************************)
(* Inputs of the matcher: version strings written from tuples              *)
(***************************************************************************)
RECURSIVE Decimal(_)
Decimal(n) ==
    IF n < 10 THEN <<Digits[n + 1]>>
    ELSE Decimal(n \div 10) \o <<Digits[(n % 10) + 1]>>

Dotted(t) == Decimal(t[1]) \o <<".">> \o Decimal(t[2]) \o <<".">> \o Decimal(t[3])

\* the ways a tuple is written: in full, with trailing zero components left
\* out, and (WithSuffix) with pre-release or build metadata
Writings(t) ==
    {Dotted(t)}
    \cup (IF t[3] = 0 THEN {Decimal(t[1]) \o <<".">> \o Decimal(t[2])} ELSE {})
    \cup (IF t[3] = 0 /\ t[2] = 0 THEN {Decimal(t[1])} ELSE {})

WithSuffix(t) == {Dotted(t) \o <<"-", "b">>, Dotted(t) \o <<"+", "1">>}

RefNums == 0..MaxNum

\* candidates also take two larger components, one of them with two digits
CandNums == RefNums \cup {9, 10}

RefTuples == RefNums \X RefNums \X RefNums

CandTuples == CandNums \X CandNums \X CandNums

\* strings no version can be read from
BadVersions == {<<"x">>, <<"1", ".", "x">>, <<"1", ".", ".", "2">>}

\* constraints whose version is no version, or that _parse rejects
BadConstraints ==
    {Operators[i] \o <<"x">> : i \in 1..Len(Operators)}
    \cup {<<"1", ".", "0">>, <<"~", "1">>, <<">", "=">>}

NewConstraint(c) ==
    [state |-> "new", constraint |-> c, operator |-> <<>>, version |-> <<>>]

(***************************************************************************)
(* SpecSat: one VersionConstraint, constructed and then asked              *)
(***************************************************************************)
InitSat ==
    /\ \/ \E i \in 1..Len(Operators), t \in RefTuples :
             \E w \in Writings(t) :
                /\ vc = NewConstraint(Operators[i] \o w)
                /\ refTuple = t
       \/ /\ vc \in {NewConstraint(c) : c \in BadConstraints}
          /\ refTuple = <<>>
    /\ candidate = <<>>
    /\ candTuple = <<>>
    /\ sat = "idle"
    /\ NoResolver

\* VersionConstraint.__init__
Construct ==
    /\ vc.state = "new"
    /\ LET p == _parse(vc.constraint)
       IN  vc' = IF p.exc = "None"
                 THEN [vc EXCEPT !.state = "built", !.operator = p.operator,
                                 !.version = p.version]
                 ELSE [vc EXCEPT !.state = "ValueError"]
    /\ UNCHANGED <<candidate, sat, refTuple, candTuple, resolverVars, detectVars, manifest_arg, result, runVars>>

\* constraint.satisfies(version)
CallSatisfies ==
    /\ vc.state = "built"
    /\ sat = "idle"
    /\ \/ \E t \in CandTuples :
             \E w \in Writings(t) \cup WithSuffix(t) :
                /\ candidate' = w
                /\ candTuple' = t
       \/ /\ candidate' \in BadVersions
          /\ candTuple' = <<>>
    /\ sat' = satisfies(vc.operator, vc.version, candidate')
    /\ UNCHANGED <<vc, refTuple, resolverVars, detectVars, manifest_arg, result, runVars>>

NextSat == Construct \/ CallSatisfies

SpecSat == InitSat /\ [][NextSat]_vars

(***************************************************************************)
(* Claims about the matcher                                                *)
(***************************************************************************)
\* the order of tuples as one number per tuple (components stay below Radix)
Radix == MaxNum + 11

Rank(t) == t[1] * Radix * Radix + t[2] * Radix + t[3]

OpGe == <<">", "=">>
OpLe == <<"<", "=">>
OpGt == <<">">>
OpLt == <<"<">>
OpPess == <<"~", ">">>
OpEq == <<"=">>
OpCaret == <<"^">>

\* what the operator asks of candidate c against reference r
Expected(operator, r, c) ==
    CASE operator = OpGe -> Rank(c) >= Rank(r)
      [] operator = OpLe -> Rank(c) <= Rank(r)
      [] operator = OpGt -> Rank(c) > Rank(r)
      [] operator = OpLt -> Rank(c) < Rank(r)
      [] operator = OpPess ->
            Rank(c) >= Rank(r) /\ Rank(c) < Rank(<<r[1], r[2] + 1, 0>>)
      [] operator = OpCaret ->
            Rank(c) >= Rank(r) /\ Rank(c) < Rank(<<r[1] + 1, 0, 0>>)

\* satisfies was called with both versions written from tuples
AskedOfTuples == sat # "idle" /\ refTuple # <<>> /\ candTuple # <<>>

\* C4: for a reference tuple r and a candidate tuple c, however the two are
\* written (two components, a suffix), satisfies returns, and returns true
\* exactly when the operator's comparison of c with r holds: '>=', '<=', '>',
\* '<' in the (major, minor, patch) order, '~>' iff r <= c < (r.major,
\* r.minor + 1, 0), '^' iff r <= c < (r.major + 1, 0, 0).
C4_SatisfiesAgrees ==
    (AskedOfTuples /\ vc.operator # OpEq) =>
        /\ sat \in {"True", "False"}
        /\ (sat = "True") <=> Expected(vc.operator, refTuple, candTuple)

\* ~>1.2 (two components) was asked about 1.3.0 and rejected it
C4_Witness ==
    /\ vc.constraint = <<"~", ">", "1", ".", "2">>
    /\ candidate = <<"1", ".", "3", ".", "0">>
    /\ sat = "False"

\* C5: under '=', satisfies returns true exactly when the candidate string is
\* the constraint's version string character for character, whatever the two
\* parse to.
C5_ExactIsStringEquality ==
    (AskedOfTuples /\ vc.operator = OpEq) =>
        /\ sat \in {"True", "False"}
        /\ (sat = "True") <=>
              /\ Len(candidate) = Len(vc.constraint) - 1
              /\ \A i \in 1..Len(candidate) : candidate[i] = vc.constraint[i + 1]

\* =1.2.0 was asked about 1.2, which parses to the same tuple, and rejected it
C5_Witness ==
    /\ vc.constraint = <<"=", "1", ".", "2", ".", "0">>
    /\ candidate = <<"1", ".", "2">>
    /\ refTuple = candTuple
    /\ sat = "False"

(***************************************************************************)
(* build_dependency_graph                                                  *)
(***************************************************************************)
\* `for dep in manifest.get('dependencies', [])`: the items the loop runs
\* over, or the TypeError of iterating None
IterDependencies(manifest) ==
    IF manifest.dependencies.t = "null"
    THEN [exc |-> "TypeError", items |-> <<>>]
    ELSE [exc |-> "None", items |-> manifest.dependencies.items]

\* defaultdict(set): a name without an entry reads as the empty set
EmptyGraph == [n \in Names |-> {}]

AddEdge(graph, from, to) == [graph EXCEPT ![from] = @ \cup {to}]

\* mutant: the reverse map is left as it was
AddForwardOnly(graphs, name, dep) ==
    IF dep.name # None
    THEN [forward |-> AddEdge(graphs.forward, name, dep.name),
          reverse |-> graphs.reverse]
    ELSE graphs

\* lines 107-110 for one declaration of manifest `name`
AddDeclaration(graphs, name, dep) ==
    IF dep.name # None
    THEN [forward |-> AddEdge(graphs.forward, name, dep.name),
          reverse |-> AddEdge(graphs.reverse, dep.name, name)]
    ELSE graphs

RECURSIVE AddDeclarations(_, _, _)
AddDeclarations(graphs, name, items) ==
    IF items = <<>> THEN graphs
    ELSE AddDeclarations(AddDeclaration(graphs, name, Head(items)), name, Tail(items))

RECURSIVE AddManifests(_, _, _)
AddManifests(graphs, keys, registry) ==
    IF keys = <<>> THEN graphs
    ELSE AddManifests(
             AddDeclarations(graphs, Head(keys),
                             IterDependencies(registry[Head(keys)]).items),
             Tail(keys), registry)

\* the exception one manifest makes the loops raise: iterating None, or
\* calling .get on an entry that is no mapping
BuildExcOf(manifest) ==
    IF IterDependencies(manifest).exc # "None" THEN IterDependencies(manifest).exc
    ELSE IF \E i \in 1..Len(manifest.dependencies.items) :
               manifest.dependencies.items[i].t # "map"
         THEN "AttributeError"
         ELSE "None"

\* the first exception in iteration order, or "None"
BuildExc(keys, registry) ==
    IF \E i \in 1..Len(keys) : BuildExcOf(registry[keys[i]]) # "None"
    THEN LET k == CHOOSE i \in 1..Len(keys) :
                     /\ BuildExcOf(registry[keys[i]]) # "None"
                     /\ \A j \in 1..(i - 1) : BuildExcOf(registry[keys[j]]) = "None"
         IN  BuildExcOf(registry[keys[k]])
    ELSE "None"

\* resolver.build_dependency_graph()
BuildGraph ==
    /\ pc = "loaded"
    /\ LET exc == BuildExc(plugin_keys, plugins)
           graphs == AddManifests([forward |-> EmptyGraph, reverse |-> EmptyGraph],
                                  plugin_keys, plugins)
       IN  IF exc = "None"
           THEN /\ dependency_graph' = graphs.forward
                /\ reverse_graph' = graphs.reverse
                /\ pc' = "built"
                /\ raised' = raised
           ELSE /\ pc' = "crashed"
                /\ raised' = exc
                /\ UNCHANGED <<dependency_graph, reverse_graph>>
    /\ UNCHANGED <<plugin_keys, plugins, satVars, detectVars, manifest_arg, result, runVars>>

(***************************************************************************)
(* detect_circular_dependencies, one step of the traversal per action      *)
(***************************************************************************)
\* self.dependency_graph.get(node, set())
Neighbours(node) == dependency_graph[node]

\* mutant: every key is started as a root, visited or not
RootAnyway(node, seen) == TRUE

\* line 137: if node not in visited
RootUnvisited(node, seen) == node \notin seen

\* mutant: the neighbour test looks at the stack, as if there were no visited set
NeighbourOffStack(neighbor, seen, stack) == neighbor \notin stack

\* line 125: if neighbor not in visited
NeighbourUnvisited(neighbor, seen, stack) == neighbor \notin seen

\* mutant: only an edge back to the root of the traversal counts as a cycle
OnStackAtRoot(neighbor, stack, p) == p # <<>> /\ neighbor = p[1]

\* line 127: elif neighbor in rec_stack
OnStack(neighbor, stack, p) == neighbor \in stack

\* path.index(neighbor)
IndexOf(seq, x) ==
    CHOOSE i \in 1..Len(seq) : seq[i] = x /\ \A j \in 1..(i - 1) : seq[j] # x

\* mutant: the whole path is reported, not the part from the neighbour on
CycleFromRoot(p, neighbor) == p \o <<neighbor>>

\* lines 129-130: path[cycle_start:] + [neighbor]
CycleFrom(p, neighbor) == SubSeq(p, IndexOf(p, neighbor), Len(p)) \o <<neighbor>>

Top == frames[Len(frames)]

\* the frames with `neighbor` taken by the top call's for loop
Taken(neighbor) == [frames EXCEPT ![Len(frames)].todo = @ \ {neighbor}]

\* dfs(node) is called above the frames `below`: lines 120-122
EnterDfs(node, below) ==
    /\ visited' = visited \cup {node}
    /\ rec_stack' = rec_stack \cup {node}
    /\ path' = Append(path, node)
    /\ frames' = Append(below, [node |-> node, todo |-> Neighbours(node)])

\* detect_circular_dependencies is called: lines 114-117
StartDetect ==
    /\ pc = "built"
    /\ pc' = "detect"
    /\ cycles' = <<>>
    /\ visited' = {}
    /\ rec_stack' = {}
    /\ path' = <<>>
    /\ frames' = <<>>
    /\ root_idx' = 1
    /\ UNCHANGED <<plugin_keys, plugins, dependency_graph, reverse_graph, raised, satVars, manifest_arg, result, runVars>>

\* lines 136-138, the key is unvisited: dfs(node)
RootEnter ==
    /\ pc = "detect"
    /\ frames = <<>>
    /\ root_idx <= Len(plugin_keys)
    /\ RootUnvisited(plugin_keys[root_idx], visited)
    /\ EnterDfs(plugin_keys[root_idx], <<>>)
    /\ root_idx' = root_idx + 1
    /\ UNCHANGED <<cycles, resolverVars, satVars, manifest_arg, result, runVars>>

\* lines 136-137, the key is already visited
RootSkip ==
    /\ pc = "detect"
    /\ frames = <<>>
    /\ root_idx <= Len(plugin_keys)
    /\ ~RootUnvisited(plugin_keys[root_idx], visited)
    /\ root_idx' = root_idx + 1
    /\ UNCHANGED <<cycles, visited, rec_stack, path, frames, resolverVars, satVars, manifest_arg, result, runVars>>

\* lines 124-126: the loop takes an unvisited neighbour and calls dfs on it
DfsVisit ==
    /\ pc = "detect"
    /\ frames # <<>>
    /\ \E neighbor \in Top.todo :
          /\ NeighbourUnvisited(neighbor, visited, rec_stack)
          /\ EnterDfs(neighbor, Taken(neighbor))
    /\ UNCHANGED <<cycles, root_idx, resolverVars, satVars, manifest_arg, result, runVars>>

\* lines 127-131: the loop takes a neighbour that is on the stack
DfsCycle ==
    /\ pc = "detect"
    /\ frames # <<>>
    /\ \E neighbor \in Top.todo :
          /\ ~NeighbourUnvisited(neighbor, visited, rec_stack)
          /\ OnStack(neighbor, rec_stack, path)
          /\ cycles' = Append(cycles, CycleFrom(path, neighbor))
          /\ frames' = Taken(neighbor)
    /\ UNCHANGED <<visited, rec_stack, path, root_idx, resolverVars, satVars, manifest_arg, result, runVars>>

\* lines 124-127: the loop takes a neighbour already visited and off the stack
DfsSeen ==
    /\ pc = "detect"
    /\ frames # <<>>
    /\ \E neighbor \in Top.todo :
          /\ ~NeighbourUnvisited(neighbor, visited, rec_stack)
          /\ ~OnStack(neighbor, rec_stack, path)
          /\ frames' = Taken(neighbor)
    /\ UNCHANGED <<cycles, visited, rec_stack, path, root_idx, resolverVars, satVars, manifest_arg, result, runVars>>

\* mutant: dfs returns without rec_stack.remove(node)
DfsReturnKeepsStack ==
    /\ pc = "detect"
    /\ frames # <<>>
    /\ Top.todo = {}
    /\ path' = SubSeq(path, 1, Len(path) - 1)
    /\ frames' = SubSeq(frames, 1, Len(frames) - 1)
    /\ UNCHANGED <<rec_stack, cycles, visited, root_idx, resolverVars, satVars,
                   manifest_arg, result, runVars>>

\* lines 133-134: the loop is over, dfs returns
DfsReturn ==
    /\ pc = "detect"
    /\ frames # <<>>
    /\ Top.todo = {}
    /\ rec_stack' = rec_stack \ {Top.node}
    /\ path' = SubSeq(path, 1, Len(path) - 1)
    /\ frames' = SubSeq(frames, 1, Len(frames) - 1)
    /\ UNCHANGED <<cycles, visited, root_idx, resolverVars, satVars, manifest_arg, result, runVars>>

\* line 140: return cycles
DetectReturn ==
    /\ pc = "detect"
    /\ frames = <<>>
    /\ root_idx > Len(plugin_keys)
    /\ pc' = "detected"
    /\ UNCHANGED <<plugin_keys, plugins, dependency_graph, reverse_graph, raised,
                   detectVars, satVars, manifest_arg, result, runVars>>

(***************************************************************************)
(* SpecCycle: a loaded registry, its graph, and the detection              *)
(***************************************************************************)
\* the orders in which a registry can hold its keys
KeyOrders ==
    {keys \in UNION {[1..k -> Names] : k \in 0..Cardinality(Names)} :
        \A i, j \in 1..Len(keys) : i # j => keys[i] # keys[j]}

\* what a declaration of these registries names: a plugin, or nothing
Targets == Names \cup {None}

SomeVersion == StrV(<<"1", ".", "0", ".", "0">>)

\* declarations with the given names and no version constraint
Unconstrained(names) == DepList([i \in 1..Len(names) |-> Dep(names[i], AbsentV)])

InitCycle ==
    /\ NoMatcher
    /\ pc = "loaded"
    /\ \E keys \in KeyOrders, len \in [Names -> 0..MaxDecls] :
          /\ len["A"] + len["B"] + len["C"] <= MaxDecls
          /\ \A n \in Names : n \notin Range(keys) => len[n] = 0
          /\ plugin_keys = keys
          /\ \E da \in [1..len["A"] -> Targets],
                db \in [1..len["B"] -> Targets],
                dc \in [1..len["C"] -> Targets] :
                plugins = [n \in Range(keys) |->
                             Manifest(n, SomeVersion,
                                      Unconstrained(CASE n = "A" -> da
                                                      [] n = "B" -> db
                                                      [] n = "C" -> dc))]
    /\ dependency_graph = EmptyGraph
    /\ reverse_graph = EmptyGraph
    /\ raised = "None"
    /\ cycles = <<>>
    /\ visited = {}
    /\ rec_stack = {}
    /\ path = <<>>
    /\ frames = <<>>
    /\ root_idx = 1
    /\ manifest_arg = NoManifest
    /\ result = NoResult
    /\ NoRun

NextCycle ==
    \/ BuildGraph
    \/ StartDetect
    \/ RootEnter
    \/ RootSkip
    \/ DfsVisit
    \/ DfsCycle
    \/ DfsSeen
    \/ DfsReturn
    \/ DetectReturn

SpecCycle == InitCycle /\ [][NextCycle]_vars

\* the interpreter runs the call to its end: a step that can be taken is taken
SpecCycleFair == SpecCycle /\ WF_vars(NextCycle)

(***************************************************************************)
(* detect_circular_dependencies as a function of the registry keys and the *)
(* graph: the results it can return, over the orders in which the          *)
(* neighbour sets can be iterated                                          *)
(***************************************************************************)
RECURSIVE DfsResults(_, _, _)
RECURSIVE LoopResults(_, _, _, _)

\* one turn of the for loop of dfs, on `neighbor`: lines 125-131
TurnResults(graph, neighbor, st) ==
    IF NeighbourUnvisited(neighbor, st.visited, st.rec_stack)
    THEN DfsResults(graph, neighbor, st)
    ELSE IF OnStack(neighbor, st.rec_stack, st.path)
         THEN {[st EXCEPT !.cycles = Append(@, CycleFrom(st.path, neighbor))]}
         ELSE {st}

\* the rest of the for loop of dfs(node), `todo` being the neighbours left
LoopResults(graph, node, todo, st) ==
    IF todo = {} THEN {st}
    ELSE UNION {UNION {LoopResults(graph, node, todo \ {neighbor}, s) :
                          s \in TurnResults(graph, neighbor, st)} :
                   neighbor \in todo}

\* dfs(node): lines 119-134
DfsResults(graph, node, st) ==
    LET entered == [st EXCEPT !.visited = @ \cup {node},
                              !.rec_stack = @ \cup {node},
                              !.path = Append(@, node)]
    IN  {[s EXCEPT !.rec_stack = @ \ {node},
                   !.path = SubSeq(@, 1, Len(@) - 1)] :
            s \in LoopResults(graph, node, graph[node], entered)}

\* the outer for loop: lines 136-138
RECURSIVE RootResults(_, _, _)
RootResults(graph, keys, st) ==
    IF keys = <<>> THEN {st}
    ELSE UNION {RootResults(graph, Tail(keys), s) :
                   s \in IF RootUnvisited(Head(keys), st.visited)
                         THEN DfsResults(graph, Head(keys), st)
                         ELSE {st}}

detect_circular_dependencies(keys, graph) ==
    {s.cycles : s \in RootResults(graph, keys,
                                  [visited |-> {}, rec_stack |-> {},
                                   path |-> <<>>, cycles |-> <<>>])}

(***************************************************************************)
(* Claims about the cycle detector                                         *)
(***************************************************************************)
\* manifest a of the registry declares a dependency named b
Declares(a, b) ==
    /\ a \in Range(plugin_keys)
    /\ \E i \in 1..Len(plugins[a].dependencies.items) :
          plugins[a].dependencies.items[i].name = b

\* the directed cycles of the declared dependencies, each node once
DeclaredCycles ==
    {p \in UNION {[1..k -> Names] : k \in 1..Cardinality(Names)} :
        /\ \A i, j \in 1..Len(p) : i # j => p[i] # p[j]
        /\ \A i \in 1..Len(p) : Declares(p[i], p[(i % Len(p)) + 1])}

Detected == pc = "detected"

\* closed walk d is closed walk c started at another of its nodes
IsRotation(c, d) ==
    /\ Len(c) >= 2
    /\ Len(d) = Len(c)
    /\ \E k \in 0..(Len(c) - 2) :
          \A i \in 1..Len(c) : d[i] = c[((i - 1 + k) % (Len(c) - 1)) + 1]

\* the registry is A -> B -> C -> A and nothing else
ThreeCycle ==
    /\ Range(plugin_keys) = Names
    /\ \A a, b \in Names :
          Declares(a, b) <=> <<a, b>> \in {<<"A", "B">>, <<"B", "C">>, <<"C", "A">>}

\* C1: when the declared dependencies hold a directed cycle, the detection
\* returns at least one cycle-path, whatever the order of the registry keys
\* and of the neighbour sets; for A -> B -> C -> A the result holds a
\* rotation of [A, B, C, A].
C1_CycleIsFound ==
    Detected =>
        /\ DeclaredCycles # {} => cycles # <<>>
        /\ ThreeCycle =>
              \E i \in 1..Len(cycles) : IsRotation(<<"A", "B", "C", "A">>, cycles[i])

\* A -> B -> C -> A, traversed from B, returned [B, C, A, B]
C1_Witness ==
    /\ Detected
    /\ ThreeCycle
    /\ plugin_keys[1] = "B"
    /\ cycles = << <<"B", "C", "A", "B">> >>

ClosedWalk(c) ==
    /\ Len(c) >= 2
    /\ c[1] = c[Len(c)]
    /\ \A i \in 1..(Len(c) - 1) : c[i + 1] \in dependency_graph[c[i]]
    /\ \A i, j \in 1..(Len(c) - 1) : i # j => c[i] # c[j]

\* C2: every cycle-path recorded is a closed walk of dependency_graph: two
\* elements or more, first and last the same plugin, every consecutive pair
\* an edge, no other plugin twice; a registry without a declared cycle gives
\* an empty result.
C2_CyclesAreClosedWalks ==
    /\ \A i \in 1..Len(cycles) : ClosedWalk(cycles[i])
    /\ (Detected /\ DeclaredCycles = {}) => cycles = <<>>

\* A -> B -> C -> B traversed from A: the cycle starts below the root
C2_Witness ==
    /\ Detected
    /\ plugin_keys # <<>>
    /\ plugin_keys[1] = "A"
    /\ dependency_graph["A"] = {"B"}
    /\ cycles = << <<"B", "C", "B">> >>

\* C10 as stated: among the registries that can be loaded there is one, with
\* a traversal order, for which a run returns the same cycle twice, identical
\* or as a rotation.
C10_SomeCycleTwice ==
    pc = "loaded" =>
        \E keys \in KeyOrders, graph \in [Names -> SUBSET Names] :
            /\ \A n \in Names \ Range(keys) : graph[n] = {}
            /\ \E returned \in detect_circular_dependencies(keys, graph) :
                  \E i, j \in 1..Len(returned) :
                     i # j /\ IsRotation(returned[i], returned[j])

\* C10, amended: no run returns the same cycle twice: any two entries of the
\* result differ, also up to rotation (a cycle that several registry keys
\* reach is recorded from the first of them only).
C10_NoCycleTwice ==
    \A i, j \in 1..Len(cycles) : i # j => ~IsRotation(cycles[i], cycles[j])

\* the self-dependency of B is reached from A, from B and from C, and is
\* returned once
C10_Witness ==
    /\ Detected
    /\ Range(plugin_keys) = Names
    /\ dependency_graph = [n \in Names |-> {"B"}]
    /\ cycles = << <<"B", "B">> >>

\* the stepwise traversal returns one of the results of the function
DetectAgrees ==
    Detected => cycles \in detect_circular_dependencies(plugin_keys, dependency_graph)

(***************************************************************************)
(* validate_dependencies                                                   *)
(***************************************************************************)
\* `if dep_version:` a missing entry and the empty string are false
Truthy(value) == value.t = "float" \/ (value.t = "str" /\ value.s # <<>>)

\* self.plugins[dep_name].get('version', '0.0.0')
PluginVersion(manifest) ==
    IF manifest.version.t = "absent" THEN StrV(<<"0", ".", "0", ".", "0">>)
    ELSE manifest.version

\* constraint.satisfies(plugin_version) on a document scalar: re.sub raises
\* TypeError on a value that is no str, after self.version has been parsed
SatisfiesValue(operator, ownVersion, value) ==
    IF _parse_version(ownVersion).exc # "None" THEN "ValueError"
    ELSE IF value.t # "str" THEN "TypeError"
    ELSE satisfies(operator, ownVersion, value.s)

NoError == <<>>

ErrorOf(decl, kind, dep, actual) ==
    <<[decl |-> decl, kind |-> kind, dep |-> dep.name,
       actual |-> actual, constraint |-> dep.version]>>

\* lines 165-171, given what satisfies returned or raised
AnswerOutcome(decl, dep, actual, answer) ==
    IF answer = "ValueError"
    THEN [exc |-> "None", errors |-> ErrorOf(decl, "invalid_constraint", dep, AbsentV)]
    ELSE IF answer = "TypeError"
    THEN [exc |-> "TypeError", errors |-> NoError]
    ELSE IF answer = "False"
    THEN [exc |-> "None", errors |-> ErrorOf(decl, "unsatisfied", dep, actual)]
    ELSE [exc |-> "None", errors |-> NoError]

\* lines 163-171, given what VersionConstraint._parse returned or raised
ParsedOutcome(decl, dep, p, actual) ==
    IF p.exc # "None"
    THEN [exc |-> "None", errors |-> ErrorOf(decl, "invalid_constraint", dep, AbsentV)]
    ELSE AnswerOutcome(decl, dep, actual,
                       SatisfiesValue(p.operator, p.version, actual))

\* lines 162-171 for a declaration with a version entry that is true:
\* [exc, errors], exc an exception that `except ValueError` does not catch
\* (re.match raises TypeError on a value that is no str)
CheckConstraint(decl, dep, registry) ==
    IF dep.version.t # "str"
    THEN [exc |-> "TypeError", errors |-> NoError]
    ELSE ParsedOutcome(decl, dep, _parse(dep.version.s),
                       PluginVersion(registry[dep.name]))

\* lines 149-171: the loop body for declaration number decl
CheckDeclaration(decl, dep, keys, registry) ==
    IF dep.t # "map"
    THEN [exc |-> "AttributeError", errors |-> NoError]
    ELSE IF dep.name = None
    THEN [exc |-> "None", errors |-> ErrorOf(decl, "missing_name", dep, AbsentV)]
    ELSE IF dep.name \notin Range(keys)
    THEN [exc |-> "None", errors |-> ErrorOf(decl, "not_found", dep, AbsentV)]
    ELSE IF ~Truthy(dep.version)
    THEN [exc |-> "None", errors |-> NoError]
    ELSE CheckConstraint(decl, dep, registry)

\* mutant: the loop ends at the first error
StopAtFirstError(errors) == errors = <<>>

\* lines 152, 157: `continue`, and the loop's running on after an append
LoopGoesOn(errors) == TRUE

RECURSIVE CheckDeclarations(_, _, _, _, _)

\* the loop after declaration number decl gave `one`
AfterDeclaration(items, decl, errors, keys, registry, one) ==
    IF one.exc # "None"
    THEN [exc |-> one.exc, errors |-> NoError]
    ELSE CheckDeclarations(items, decl + 1, errors \o one.errors, keys, registry)

\* lines 148-171: the loop from declaration number decl on
CheckDeclarations(items, decl, errors, keys, registry) ==
    IF decl > Len(items) \/ ~LoopGoesOn(errors)
    THEN [exc |-> "None", errors |-> errors]
    ELSE AfterDeclaration(items, decl, errors, keys, registry,
                          CheckDeclaration(decl, items[decl], keys, registry))

\* line 173, or the exception that ended the loop
ValidateResult(checked) ==
    [exc |-> checked.exc,
     ok |-> checked.exc = "None" /\ Len(checked.errors) = 0,
     errors |-> checked.errors]

\* validate_dependencies(manifest): [exc, ok, errors]
validate_dependencies(manifest, keys, registry) ==
    IF IterDependencies(manifest).exc # "None"
    THEN [exc |-> IterDependencies(manifest).exc, ok |-> FALSE, errors |-> NoError]
    ELSE ValidateResult(CheckDeclarations(IterDependencies(manifest).items, 1,
                                          NoError, keys, registry))

(***************************************************************************)
(* SpecValidate: a registry, and one manifest handed to                    *)
(* validate_dependencies                                                   *)
(***************************************************************************)
V(s) == StrV(s)

Str150 == <<"1", ".", "5", ".", "0">>
Str200 == <<"2", ".", "0", ".", "0">>
Str15 == <<"1", ".", "5">>
StrX == <<"x">>
StrGe200 == <<">", "=">> \o Str200
StrEq15 == <<"=">> \o Str15
StrGeX == <<">", "=">> \o StrX

\* versions a registry manifest can carry
RegistryVersions == {AbsentV, V(Str150), V(Str200), V(Str15), V(StrX), FloatV}

\* version entries a declaration can carry: none, the empty string, a
\* constraint, a string with no operator, an operator with no version, a float
DeclVersions == {AbsentV, V(<<>>), V(StrGe200), V(StrEq15), V(Str200), V(StrGeX), FloatV}

\* entries of a dependencies list: "A" is registered, "B" may be, "C" is not
DeclEntries ==
    {ScalarDep}
    \cup {Dep(n, v) : n \in {"A", "B"}, v \in DeclVersions}
    \cup {Dep(n, v) : n \in {None, "C"}, v \in {AbsentV, V(StrGe200)}}

DependencyFields ==
    {AbsentDeps, NullDeps}
    \cup {DepList(items) : items \in UNION {[1..k -> DeclEntries] : k \in 0..MaxDeps}}

InitValidate ==
    /\ NoMatcher
    /\ pc = "built"
    /\ \/ /\ plugin_keys = <<"A">>
          /\ plugins = [n \in {"A"} |-> Manifest("A", V(Str200), AbsentDeps)]
       \/ /\ plugin_keys = <<"A", "B">>
          /\ \E v \in RegistryVersions :
                plugins = [n \in {"A", "B"} |->
                             IF n = "A" THEN Manifest("A", V(Str200), AbsentDeps)
                             ELSE Manifest("B", v, AbsentDeps)]
    /\ dependency_graph = EmptyGraph
    /\ reverse_graph = EmptyGraph
    /\ raised = "None"
    /\ cycles = <<>>
    /\ visited = {}
    /\ rec_stack = {}
    /\ path = <<>>
    /\ frames = <<>>
    /\ root_idx = 1
    /\ manifest_arg \in {Manifest("A", V(Str200), d) : d \in DependencyFields}
    /\ result = NoResult
    /\ NoRun

\* resolver.validate_dependencies(manifest)
CallValidate ==
    /\ pc = "built"
    /\ result.op = "none"
    /\ result' = Called("validate_dependencies",
                         validate_dependencies(manifest_arg, plugin_keys, plugins))
    /\ raised' = result'.exc
    /\ pc' = IF result'.exc = "None" THEN "returned" ELSE "raised"
    /\ UNCHANGED <<plugin_keys, plugins, dependency_graph, reverse_graph, manifest_arg,
                   runVars, detectVars, satVars>>

NextValidate == CallValidate

SpecValidate == InitValidate /\ [][NextValidate]_vars

(***************************************************************************)
(* Claims about the validator                                              *)
(***************************************************************************)
\* what the version entries of the model mean, read off the strings
\* themselves: the constraint's operator and reference, or that it has none
Meaning(value) ==
    CASE value = V(StrGe200) -> [ok |-> TRUE, operator |-> OpGe, ref |-> <<2, 0, 0>>,
                                 text |-> Str200]
      [] value = V(StrEq15) -> [ok |-> TRUE, operator |-> OpEq, ref |-> <<1, 5, 0>>,
                                text |-> Str15]
      [] OTHER -> [ok |-> FALSE, operator |-> <<>>, ref |-> <<>>, text |-> <<>>]

\* the version a registry entry states, or that it states none
Stated(value) ==
    CASE value = AbsentV -> [ok |-> TRUE, v |-> <<0, 0, 0>>, text |-> <<"0", ".", "0", ".", "0">>]
      [] value = V(Str150) -> [ok |-> TRUE, v |-> <<1, 5, 0>>, text |-> Str150]
      [] value = V(Str200) -> [ok |-> TRUE, v |-> <<2, 0, 0>>, text |-> Str200]
      [] value = V(Str15) -> [ok |-> TRUE, v |-> <<1, 5, 0>>, text |-> Str15]
      [] OTHER -> [ok |-> FALSE, v |-> <<>>, text |-> <<>>]

\* the registry's version of the plugin meets the constraint
Met(constraint, version) ==
    /\ Meaning(constraint).ok
    /\ Stated(version).ok
    /\ IF Meaning(constraint).operator = OpEq
       THEN Meaning(constraint).text = Stated(version).text
       ELSE Expected(Meaning(constraint).operator, Meaning(constraint).ref,
                     Stated(version).v)

\* the declaration carries a constraint: a version entry that is not empty
Constrained(dep) == dep.version \notin {AbsentV, V(<<>>)}

\* the error the claim expects for a declaration, or "none"
ExpectedError(dep) ==
    IF dep.name = None THEN "missing_name"
    ELSE IF dep.name \notin Range(plugin_keys) THEN "not_found"
    ELSE IF ~Constrained(dep) THEN "none"
    ELSE IF ~Meaning(dep.version).ok THEN "invalid_constraint"
    ELSE IF ~Stated(plugins[dep.name].version).ok THEN "invalid_constraint"
    ELSE IF ~Met(dep.version, plugins[dep.name].version) THEN "unsatisfied"
    ELSE "none"

Validated == result.op = "validate_dependencies" /\ result.exc = "None"

\* C3: the error sequence holds, in declaration order, exactly one error for
\* each declaration that has no name, names a plugin absent from the
\* registry, carries an unparseable constraint or carries a constraint the
\* registry's version does not meet, and none for any other declaration; ok
\* is true exactly when the sequence is empty.
C3_ErrorsAreAccumulated ==
    Validated =>
        LET items == manifest_arg.dependencies.items
            failing == {i \in 1..Len(items) : ExpectedError(items[i]) # "none"}
        IN  /\ {result.errors[k].decl : k \in 1..Len(result.errors)} = failing
            /\ \A k \in 1..(Len(result.errors) - 1) :
                  result.errors[k].decl < result.errors[k + 1].decl
            /\ \A k \in 1..Len(result.errors) :
                  /\ result.errors[k].kind = ExpectedError(items[result.errors[k].decl])
                  /\ result.errors[k].dep = items[result.errors[k].decl].name
            /\ result.ok <=> (result.errors = <<>>)

\* a manifest that depends on the absent C and then on B >=2.0.0, with B at
\* 1.5.0: two errors, in that order
C3_Witness ==
    /\ Validated
    /\ plugins = [n \in {"A", "B"} |->
                    IF n = "A" THEN Manifest("A", V(Str200), AbsentDeps)
                    ELSE Manifest("B", V(Str150), AbsentDeps)]
    /\ manifest_arg.dependencies = DepList(<<Dep("C", AbsentV), Dep("B", V(StrGe200))>>)
    /\ ~result.ok
    /\ Len(result.errors) = 2
    /\ result.errors[1].kind = "not_found"
    /\ result.errors[2].kind = "unsatisfied"
    /\ result.errors[2].dep = "B"

(***************************************************************************)
(* resolve_all_dependencies                                                *)
(***************************************************************************)
\* an entry of resolve_all_dependencies' errors: the chain of a cycle, or an
\* error of validate_dependencies behind the `[name] ` of its manifest
NoDetail ==
    [decl |-> 0, kind |-> "cycle", dep |-> None, actual |-> AbsentV,
     constraint |-> AbsentV]

\* line 183: "Circular dependency detected: " + ' -> '.join(cycle)
CycleError(cycle) == [owner |-> None, chain |-> cycle, error |-> NoDetail]

\* line 189: f"[{name}] {e}"
Prefixed(name, e) == [owner |-> name, chain |-> <<>>, error |-> e]

\* lines 181-183
CycleErrors(found) == [i \in 1..Len(found) |-> CycleError(found[i])]

\* mutant: the errors of a manifest take the place of those gathered so far
ReplaceErrors(errors, name, plugin_errors) ==
    [i \in 1..Len(plugin_errors) |-> Prefixed(name, plugin_errors[i])]

\* lines 188-189: errors.extend([f"[{name}] {e}" for e in plugin_errors])
ExtendErrors(errors, name, plugin_errors) ==
    errors \o [i \in 1..Len(plugin_errors) |-> Prefixed(name, plugin_errors[i])]

RECURSIVE ValidateAll(_, _, _, _)

\* the loop of lines 186-189 after validate_dependencies gave `one` for the
\* manifest at position k
AfterManifest(k, errors, keys, registry, one) ==
    IF one.exc # "None"
    THEN [exc |-> one.exc, errors |-> NoError]
    ELSE ValidateAll(k + 1,
                     IF ~one.ok THEN ExtendErrors(errors, keys[k], one.errors)
                     ELSE errors,
                     keys, registry)

\* lines 186-189: the loop from the manifest at position k on
ValidateAll(k, errors, keys, registry) ==
    IF k > Len(keys)
    THEN [exc |-> "None", errors |-> errors]
    ELSE AfterManifest(k, errors, keys, registry,
                       validate_dependencies(registry[keys[k]], keys, registry))

\* resolve_all_dependencies(), `found` being what
\* detect_circular_dependencies returned: [exc, ok, errors]
resolve_all_dependencies(keys, registry, found) ==
    ValidateResult(ValidateAll(1, CycleErrors(found), keys, registry))

(***************************************************************************)
(* load_plugins                                                            *)
(***************************************************************************)
\* line 98: self.plugins[name] = manifest; a dict keeps the position of a key
\* that is assigned again
InsertKey(keys, name) == IF name \in Range(keys) THEN keys ELSE Append(keys, name)

InsertPlugin(registry, name, doc) ==
    [n \in (DOMAIN registry) \cup {name} |-> IF n = name THEN doc ELSE registry[n]]

\* lines 93-96 raise: open or yaml.safe_load fails, or the document has no
\* .get (AttributeError)
LoadRaises(file) == file.t # "mapping"

(***************************************************************************)
(* main(): one run of the script                                           *)
(***************************************************************************)
\* lines 196-198: no plugins-dir argument
Usage ==
    /\ pc = "main"
    /\ argc < 2
    /\ output' = Printed("stderr", "Usage:", <<>>, 0, 0)
    /\ exit_code' = 1
    /\ pc' = "exit"
    /\ UNCHANGED <<argc, dir_exists, files, file_idx, warnings, manifest_file,
                   plugin_keys, plugins, dependency_graph, reverse_graph, raised,
                   detectVars, manifest_arg, result, satVars>>

\* lines 200-203: resolver = DependencyResolver(plugins_dir)
NewResolver ==
    /\ pc = "main"
    /\ argc >= 2
    /\ plugin_keys' = <<>>
    /\ plugins' = <<>>
    /\ dependency_graph' = EmptyGraph
    /\ reverse_graph' = EmptyGraph
    /\ pc' = "load"
    /\ UNCHANGED <<raised, runVars, detectVars, manifest_arg, result, satVars>>

\* lines 89-90: the directory does not exist, load_plugins returns
LoadMissing ==
    /\ pc = "load"
    /\ ~dir_exists
    /\ pc' = "loaded"
    /\ UNCHANGED <<plugin_keys, plugins, dependency_graph, reverse_graph, raised,
                   runVars, detectVars, manifest_arg, result, satVars>>

\* lines 92-100: one turn of the loop over the directory's files
LoadFile ==
    /\ pc = "load"
    /\ dir_exists
    /\ file_idx <= Len(files)
    /\ IF LoadRaises(files[file_idx])
       THEN /\ warnings' = Append(warnings, file_idx)
            /\ UNCHANGED <<plugin_keys, plugins>>
       ELSE IF files[file_idx].doc.name = None
       THEN UNCHANGED <<warnings, plugin_keys, plugins>>
       ELSE /\ plugin_keys' = InsertKey(plugin_keys, files[file_idx].doc.name)
            /\ plugins' = InsertPlugin(plugins, files[file_idx].doc.name,
                                       files[file_idx].doc)
            /\ UNCHANGED warnings
    /\ file_idx' = file_idx + 1
    /\ UNCHANGED <<pc, dependency_graph, reverse_graph, raised, argc, dir_exists, files,
                   manifest_file, exit_code, output, detectVars, manifest_arg,
                   result, satVars>>

\* the loop of load_plugins is over
LoadDone ==
    /\ pc = "load"
    /\ dir_exists
    /\ file_idx > Len(files)
    /\ pc' = "loaded"
    /\ UNCHANGED <<plugin_keys, plugins, dependency_graph, reverse_graph, raised,
                   runVars, detectVars, manifest_arg, result, satVars>>

\* what lines 209-219 print, given the call's outcome
ReportOne(r) ==
    IF r.exc # "None" THEN Printed("stderr", "Error:", <<>>, 0, 0)
    ELSE IF ~r.ok THEN Printed("stderr", "Dependency validation failed:", r.errors, 0, 0)
    ELSE Printed("stdout", "All dependencies are valid", <<>>, 0, 0)

\* validate_dependencies on the document of sys.argv[2]: a document that is
\* no mapping has no .get (line 145)
ValidateDocument(file, keys, registry) ==
    IF file.t # "mapping"
    THEN [exc |-> "AttributeError", ok |-> FALSE, errors |-> NoError]
    ELSE validate_dependencies(file.doc, keys, registry)

\* lines 207-222: the single-manifest branch; open and yaml.safe_load raise
\* before validate_dependencies is called, `except Exception` catches all
ValidateOne ==
    /\ pc = "built"
    /\ argc = 3
    /\ IF manifest_file.t \in {"unreadable", "unparseable"}
       THEN /\ output' = Printed("stderr", "Error:", <<>>, 0, 0)
            /\ UNCHANGED <<manifest_arg, result>>
       ELSE /\ manifest_arg' = manifest_file.doc
            /\ result' = Called("validate_dependencies",
                                ValidateDocument(manifest_file, plugin_keys, plugins))
            /\ output' = ReportOne(result')
    /\ exit_code' = IF output'.stream = "stdout" THEN 0 ELSE 1
    /\ pc' = "exit"
    /\ UNCHANGED <<plugin_keys, plugins, dependency_graph, reverse_graph, raised,
                   argc, dir_exists, files, file_idx, warnings, manifest_file,
                   detectVars, satVars>>

\* line 235: sum(len(deps) for deps in self.dependency_graph.values())
RECURSIVE TotalDependencies(_, _)
TotalDependencies(graph, names) ==
    IF names = {} THEN 0
    ELSE LET n == CHOOSE x \in names : TRUE
         IN  Cardinality(graph[n]) + TotalDependencies(graph, names \ {n})

\* what lines 226-235 print, given the call's outcome
ReportAll(r, keys, graph) ==
    IF ~r.ok THEN Printed("stderr", "Dependency resolution failed:", r.errors, 0, 0)
    ELSE Printed("stdout", "All dependencies resolved successfully", <<>>,
                 Len(keys), TotalDependencies(graph, Names))

\* lines 223-235: the all-plugins branch; nothing catches an exception of
\* resolve_all_dependencies
ResolveAll ==
    /\ pc = "built"
    /\ argc = 2
    /\ \E found \in detect_circular_dependencies(plugin_keys, dependency_graph) :
          /\ cycles' = found
          /\ result' = Called("resolve_all_dependencies",
                              resolve_all_dependencies(plugin_keys, plugins, found))
    /\ raised' = result'.exc
    /\ IF result'.exc # "None"
       THEN /\ pc' = "crashed"
            /\ UNCHANGED <<output, exit_code>>
       ELSE /\ output' = ReportAll(result', plugin_keys, dependency_graph)
            /\ exit_code' = IF result'.ok THEN 0 ELSE 1
            /\ pc' = "exit"
    /\ UNCHANGED <<plugin_keys, plugins, dependency_graph, reverse_graph, argc,
                   dir_exists, files, file_idx, warnings, manifest_file, visited,
                   rec_stack, path, frames, root_idx, manifest_arg, satVars>>

\* an exception nothing caught: the interpreter prints the traceback and the
\* process ends with status 1
Uncaught ==
    /\ pc = "crashed"
    /\ output' = Printed("stderr", "Traceback", <<>>, 0, 0)
    /\ exit_code' = 1
    /\ pc' = "exit"
    /\ UNCHANGED <<plugin_keys, plugins, dependency_graph, reverse_graph, raised,
                   argc, dir_exists, files, file_idx, warnings, manifest_file,
                   detectVars, manifest_arg, result, satVars>>

\* dependencies entries of the files' manifests
FileDependencies ==
    {AbsentDeps, NullDeps, DepList(<<ScalarDep>>), DepList(<<Dep("A", AbsentV)>>),
     DepList(<<Dep("B", V(StrGe200)), Dep("C", AbsentV)>>)}

\* the files a plugins directory can hold
FileContents ==
    {Unparseable, NonMapping, Mapping(Manifest(None, V(Str200), AbsentDeps))}
    \cup {Mapping(Manifest("A", V(Str200), d)) : d \in FileDependencies}
    \cup {Mapping(Manifest("B", v, d)) : v \in {V(Str150), FloatV},
                                         d \in FileDependencies}

\* the files sys.argv[2] can name
ManifestFiles ==
    {Unreadable, Unparseable, NonMapping}
    \cup {Mapping(Manifest("A", V(Str200), d)) :
             d \in {AbsentDeps, NullDeps,
                    DepList(<<Dep("B", V(StrGe200)), Dep("C", AbsentV)>>)}}

Init ==
    /\ NoMatcher
    /\ pc = "main"
    /\ argc \in 1..3
    /\ dir_exists \in IF argc = 1 THEN {TRUE} ELSE BOOLEAN
    /\ files \in IF argc = 1 \/ ~dir_exists THEN {<<>>}
                 ELSE UNION {[1..k -> FileContents] : k \in 0..MaxFiles}
    /\ manifest_file \in IF argc = 3 THEN ManifestFiles ELSE {NoFile}
    /\ file_idx = 1
    /\ warnings = <<>>
    /\ exit_code = -1
    /\ output = NoOutput
    /\ plugin_keys = <<>>
    /\ plugins = <<>>
    /\ dependency_graph = <<>>
    /\ reverse_graph = <<>>
    /\ raised = "None"
    /\ cycles = <<>>
    /\ visited = {}
    /\ rec_stack = {}
    /\ path = <<>>
    /\ frames = <<>>
    /\ root_idx = 1
    /\ manifest_arg = NoManifest
    /\ result = NoResult

Next ==
    \/ Usage
    \/ NewResolver
    \/ LoadMissing
    \/ LoadFile
    \/ LoadDone
    \/ BuildGraph
    \/ ValidateOne
    \/ ResolveAll
    \/ Uncaught

Spec == Init /\ [][Next]_vars

(***************************************************************************)
(* Claims about resolve_all_dependencies and the run                       *)
(***************************************************************************)
\* resolve_all_dependencies was called and returned
Resolved == result.op = "resolve_all_dependencies" /\ result.exc = "None"

\* the errors validate_dependencies gives for the registry manifest at
\* position k of the keys
OwnErrors(k) ==
    validate_dependencies(plugins[plugin_keys[k]], plugin_keys, plugins).errors

\* where the errors of the manifest at position k start in the result
RECURSIVE Offset(_)
Offset(k) == IF k = 1 THEN Len(cycles) ELSE Offset(k - 1) + Len(OwnErrors(k - 1))

\* C6: resolve_all_dependencies returns ok = true exactly when the detector
\* found no cycle and every registry manifest validates without error; its
\* errors are one error per detected cycle carrying that cycle's chain (a
\* chain ending where it starts), followed by every validation error of
\* every registry manifest, in registry order, each under its manifest's name.
C6_ResolveAllGathers ==
    Resolved =>
        /\ result.ok <=> /\ cycles = <<>>
                         /\ \A k \in 1..Len(plugin_keys) : OwnErrors(k) = <<>>
        /\ Len(result.errors) = Offset(Len(plugin_keys) + 1)
        /\ \A i \in 1..Len(cycles) :
              /\ result.errors[i] = [owner |-> None, chain |-> cycles[i],
                                     error |-> NoDetail]
              /\ cycles[i][1] = cycles[i][Len(cycles[i])]
        /\ \A k \in 1..Len(plugin_keys) : \A j \in 1..Len(OwnErrors(k)) :
              result.errors[Offset(k) + j] =
                  [owner |-> plugin_keys[k], chain |-> <<>>, error |-> OwnErrors(k)[j]]

\* a run that found a cycle and validation errors in two manifests
C6_Witness ==
    /\ Resolved
    /\ Len(cycles) >= 1
    /\ \E i, j \in 1..Len(result.errors) :
          /\ result.errors[i].owner = "A"
          /\ result.errors[j].owner = "B"

\* the run was given a plugins directory that does not exist
MissingDirectory == argc >= 2 /\ ~dir_exists

\* C7: with a plugins directory that does not exist the run ends with a
\* non-zero status and an error report, before any graph is built and before
\* any detection or validation; it never reports success.
C7_MissingDirectoryIsFatal ==
    MissingDirectory =>
        /\ pc \in {"main", "load", "loaded", "exit"}
        /\ result.op = "none"
        /\ pc = "exit" => (exit_code # 0 /\ output.stream = "stderr")

\* C8: validate_dependencies and resolve_all_dependencies always return, and
\* build_dependency_graph before them: no run ends in an exception of theirs,
\* whatever the documents hold.
C8_CallsAlwaysReturn == raised = "None" /\ result.exc = "None"

\* the files load_plugins skips: unparseable, no mapping, or without a name
Skipped == {i \in 1..Len(files) : LoadRaises(files[i]) \/ files[i].doc.name = None}

\* C9: after load_plugins the warnings are exactly one per skipped file
\* (unparseable or nameless), and the registry holds exactly the named
\* parseable manifests.
C9_OneWarningPerSkippedFile ==
    (argc >= 2 /\ dir_exists /\ pc \notin {"main", "load"}) =>
        /\ Len(warnings) = Cardinality(Skipped)
        /\ Range(warnings) = Skipped
        /\ Range(plugin_keys) = {files[i].doc.name : i \in (1..Len(files)) \ Skipped}
        /\ \A n \in Range(plugin_keys) :
              \E i \in (1..Len(files)) \ Skipped : files[i].doc = plugins[n]

(***************************************************************************)
(* Claims about the cost and the bookkeeping of the traversal              *)
(***************************************************************************)
RECURSIVE EdgesLeft(_)
\* for the plugins of `names`: one dfs entry each, and one turn of its for
\* loop for each of its forward edges
EdgesLeft(names) ==
    IF names = {} THEN 0
    ELSE LET n == CHOOSE x \in names : TRUE
         IN  1 + Cardinality(dependency_graph[n]) + EdgesLeft(names \ {n})

RECURSIVE TurnsLeft(_)
\* for the first k active dfs calls: one return each, and one turn of the for
\* loop for each neighbour not yet taken
TurnsLeft(k) ==
    IF k = 0 THEN 0
    ELSE 1 + Cardinality(frames[k].todo) + TurnsLeft(k - 1)

\* the steps the traversal can still take: roots to look at, plugins to
\* enter with their edges, and the rest of the active calls
Work ==
    (Len(plugin_keys) + 1 - root_idx) + EdgesLeft(Names \ visited)
    + TurnsLeft(Len(frames))

\* dfs is entered in this step
Enters == Len(frames') > Len(frames)

\* one step of the traversal, as C11 states it
TraversalStep ==
    pc = "detect" =>
        /\ pc' = "detect" => Work' < Work
        /\ Enters => /\ Len(frames') = Len(frames) + 1
                     /\ frames'[Len(frames')].node \notin visited
        /\ (Enters /\ frames = <<>>) => plugin_keys[root_idx] \notin visited
        /\ \A i \in 1..Len(frames) : i <= Len(frames') =>
              /\ frames'[i].node = frames[i].node
              /\ frames'[i].todo \subseteq frames[i].todo

\* C11: the detection terminates on every registry, cyclic, self-dependent
\* or with edges that leave the registry: every step uses up one of the
\* finitely many steps left (one per root, one entry per plugin, one turn
\* per forward edge, one return per call), dfs is entered only for a plugin
\* not yet visited, so at most once per plugin, a root is started only if
\* not yet visited, an active call never gets an edge back once its loop
\* has taken it, and the call returns in the end.
C11_DetectionTerminates ==
    /\ [][TraversalStep]_vars
    /\ <>(pc = "detected")

\* a detection that returned over a registry with a self-dependency (a
\* cycle), an edge to a plugin outside the registry and an edge into a
\* plugin visited before
C11_Witness ==
    /\ pc = "detected"
    /\ plugin_keys = <<"A", "B">>
    /\ dependency_graph["A"] = {"A", "C"}
    /\ dependency_graph["B"] = {"A"}
    /\ cycles = << <<"A", "A">> >>
    /\ visited = {"A", "B", "C"}

\* build_dependency_graph has returned
GraphBuilt == pc \in {"built", "detect", "detected"}

\* registry manifest a carries a declaration whose name is b
NamedIn(a, b) ==
    /\ a \in Range(plugin_keys)
    /\ \E i \in 1..Len(plugins[a].dependencies.items) :
          /\ plugins[a].dependencies.items[i].name # None
          /\ plugins[a].dependencies.items[i].name = b

\* C12: once build_dependency_graph has returned, b is in dependency_graph[a]
\* iff a is a registry manifest with a declaration named b (b registered or
\* not), iff a is in reverse_graph[b]; declaring a name again adds nothing,
\* and a manifest without dependencies has no edge.
C12_GraphIsTheDeclarations ==
    GraphBuilt =>
        /\ \A a, b \in Names :
              /\ b \in dependency_graph[a] <=> NamedIn(a, b)
              /\ b \in dependency_graph[a] <=> a \in reverse_graph[b]
        /\ \A a \in Range(plugin_keys) :
              plugins[a].dependencies.items = <<>> => dependency_graph[a] = {}

\* A alone is registered and declares B, a nameless dependency, and B again:
\* the graph holds the one edge A -> B
C12_Witness ==
    /\ pc = "built"
    /\ plugin_keys = <<"A">>
    /\ plugins["A"].dependencies.items =
          <<Dep("B", AbsentV), Dep(None, AbsentV), Dep("B", AbsentV)>>
    /\ dependency_graph["A"] = {"B"}
    /\ reverse_graph["B"] = {"A"}

\* C13: while detect_circular_dependencies runs and when it has returned,
\* rec_stack is the set of the plugins on path, path holds no plugin twice,
\* every plugin on path is visited, every plugin on path but the first is a
\* forward neighbour of the one before it, and path and rec_stack are empty
\* whenever no dfs call is active: before a root is started, after the
\* traversal of a root has returned, and at the return of the detection.
C13_StackIsThePath ==
    pc \in {"detect", "detected"} =>
        /\ rec_stack = Range(path)
        /\ \A i, j \in 1..Len(path) : i # j => path[i] # path[j]
        /\ Range(path) \subseteq visited
        /\ \A i \in 1..(Len(path) - 1) : path[i + 1] \in dependency_graph[path[i]]
        /\ frames = <<>> => (path = <<>> /\ rec_stack = {})

\* the traversal of root A has returned with the cycle [A, A], and the
\* traversal of root B stands in dfs(C)
C13_Witness ==
    /\ pc = "detect"
    /\ plugin_keys = <<"A", "B", "C">>
    /\ cycles = << <<"A", "A">> >>
    /\ path = <<"B", "C">>
    /\ rec_stack = {"B", "C"}
    /\ visited = {"A", "B", "C"}

====
